---- MODULE Spec2Model ----
(***************************************************************************)
(* A model of the proxy server of src/src/server.rs: the request mediator  *)
(* (Server::handle), the control surface, the CONNECT tunnel task          *)
(* (Server::handle_connect, Server::serve_connect_stream) and the State    *)
(* store with its broadcast channel.                                       *)
(*                                                                         *)
(* Strings are sequences of tokens: "/", "?", "#" and ":" are tokens of    *)
(* their own, and every other token is a run of characters that no         *)
(* constant of the code splits ("__proxyfor__", "proxyfor.local", "foo").  *)
(* Bytes are naturals below 256.  Option<T> is the empty tuple (None) or a *)
(* 1-tuple.                                                                *)
(***************************************************************************)
EXTENDS Integers, Sequences, FiniteSets, TLC

\* ------------------------------------------------------------------ bounds

\* Number of requests the server accepts in one behaviour (one task each).
MaxTasks == 5

\* Number of requests accepted in the workload that mixes forwarded
\* requests, list requests and subscribers.
MaxStore == 3

\* Depth of the broadcast channel of the State store.
ChannelCap == 2

\* Number of requests accepted in the workload that draws every kind of
\* request and every outcome of the pipeline.
MaxDetailed == 1

\* Number of requests one tunnel serves.
MaxInner == 2

\* Number of calls of handle in progress at one time in the workload of
\* subscribers and forwarded requests: the clients of that workload that
\* wait for an answer.
MaxInFlight == 2

Tasks == 1..MaxTasks

\* ------------------------------------------------------- Option and Result

None == <<>>

Some(v) == <<v>>

IsSome(o) == o # <<>>

Unwrap(o) == o[1]

Ok(v) == [ok |-> TRUE, v |-> v, e |-> ""]

Err(e) == [ok |-> FALSE, v |-> <<>>, e |-> e]

Range(s) == {s[i] : i \in DOMAIN s}

\* ----------------------------------------------------------------- strings

starts_with(s, p) == Len(s) >= Len(p) /\ SubSeq(s, 1, Len(p)) = p

strip_prefix(s, p) == IF starts_with(s, p) THEN Some(SubSeq(s, Len(p) + 1, Len(s))) ELSE None

\* The part of url before its first '?', the whole of it when it has none.
PathOf(url) ==
    LET qs == {i \in DOMAIN url : url[i] = "?"}
    IN IF qs = {} THEN url
       ELSE SubSeq(url, 1, (CHOOSE i \in qs : \A j \in qs : i <= j) - 1)

CERT_SITE_URL == <<"http", ":", "/", "/", "proxyfor.local", "/">>

WEBUI_PREFIX == <<"/", "__proxyfor__">>

StatusOK == 200

StatusBadRequest == 400

StatusNotFound == 404

StatusInternalServerError == 500

\* -------------------------------------------------------------------- Uri

\* A Uri is its parts: scheme, authority and path-and-query, each an Option.
Uri(scheme, authority, pq) == [scheme |-> scheme, authority |-> authority, pq |-> pq]

\* Display for Uri: "{scheme}://", the authority, the path and "?query".
\* Uri::path is "/" for an empty path when the Uri has a scheme or a query.
UriToString(u) ==
    LET pq == IF IsSome(u.pq) THEN Unwrap(u.pq) ELSE <<>>
    IN (IF IsSome(u.scheme) THEN <<Unwrap(u.scheme), ":", "/", "/">> ELSE <<>>)
       \o (IF IsSome(u.authority) THEN <<Unwrap(u.authority)>> ELSE <<>>)
       \o (IF PathOf(pq) = <<>> /\ (pq # <<>> \/ IsSome(u.scheme)) THEN <<"/">> ELSE <<>>)
       \o pq

\* Uri::from_parts: a scheme needs an authority and a path; an authority with
\* a path needs a scheme.
Uri_from_parts(parts) ==
    IF IsSome(parts.scheme)
    THEN IF ~IsSome(parts.authority) THEN Err("AuthorityMissing")
         ELSE IF ~IsSome(parts.pq) THEN Err("PathAndQueryMissing")
         ELSE Ok(parts)
    ELSE IF IsSome(parts.authority) /\ IsSome(parts.pq) THEN Err("SchemeMissing")
    ELSE Ok(parts)

\* ---------------------------------------------------------------- headers

\* A HeaderMap is a sequence of <<name, value>> pairs in iteration order.
HeaderGet(h, k) ==
    LET is == {i \in DOMAIN h : h[i][1] = k}
    IN IF is = {} THEN None ELSE Some(h[CHOOSE i \in is : \A j \in is : i <= j][2])

\* HeaderMap::insert: the value replaces every value the name had.
HeaderInsert(h, k, v) ==
    IF \E i \in DOMAIN h : h[i][1] = k
    THEN LET first == CHOOSE i \in DOMAIN h : h[i][1] = k /\ \A j \in DOMAIN h : h[j][1] = k => i <= j
             kept == {i \in DOMAIN h : h[i][1] # k \/ i = first}
             F[n \in 0..Len(h)] ==
                 IF n = 0 THEN <<>>
                 ELSE IF n \in kept
                      THEN Append(F[n - 1], IF n = first THEN <<k, v>> ELSE h[n])
                      ELSE F[n - 1]
         IN F[Len(h)]
    ELSE Append(h, <<k, v>>)

\* The header values of the workloads that hold a byte outside visible ASCII.
ObsText == {"text/html\\xe9", "gzip\\xff"}

\* HeaderValue::to_str: the value as a string when every byte of it is
\* visible ASCII.
to_str(value) == IF value \in ObsText THEN Err("ToStrError") ELSE Ok(value)

\* ------------------------------------------------------------- decompress

\* The codecs are libraries.  An encoded body is a one-byte magic number
\* followed by the payload: 31 for gzip, 120 for deflate, 206 for brotli; a
\* decoder fails on any other input.
Decode(magic, in_data) ==
    IF Len(in_data) > 0 /\ in_data[1] = magic THEN Ok(Tail(in_data)) ELSE Err("invalid data")

decompress_deflate(in_data) == Decode(120, in_data)

decompress_gzip(in_data) == Decode(31, in_data)

decompress_br(in_data) == Decode(206, in_data)

ResultOk(r) == IF r.ok THEN Some(r.v) ELSE None

decompress(data, encoding) ==
    CASE encoding = "deflate" -> ResultOk(decompress_deflate(data))
      [] encoding = "gzip" -> ResultOk(decompress_gzip(data))
      [] encoding = "br" -> ResultOk(decompress_br(data))
      [] OTHER -> None

\* ---------------------------------------------------------------- filters

\* is_match_title / is_match_type: an empty list matches anything; a filter
\* matches a string that contains it.
Contains(s, f) == \E i \in 0..(Len(s) - Len(f)) : SubSeq(s, i + 1, i + Len(f)) = f

is_match_title(filters, title) ==
    filters = <<>> \/ \E i \in DOMAIN filters : Contains(title, filters[i])

is_match_type(mime_filters, value) ==
    mime_filters = <<>> \/ \E i \in DOMAIN mime_filters : mime_filters[i] = value

\* --------------------------------------------------------------- Recorder

Recorder_new(uri, method) ==
    [uri |-> uri, method |-> method, req_headers |-> None, req_body |-> None,
     res_status |-> None, res_headers |-> None, res_body |-> None,
     errors |-> <<>>, dump |-> TRUE]

Recorder_control_dump(recorder, value) == [recorder EXCEPT !.dump = recorder.dump /\ value]

Recorder_set_req_headers(recorder, headers) == [recorder EXCEPT !.req_headers = Some(headers)]

Recorder_set_req_body(recorder, body) == [recorder EXCEPT !.req_body = Some(body)]

Recorder_set_res_status(recorder, status) == [recorder EXCEPT !.res_status = Some(status)]

Recorder_set_res_headers(recorder, headers) == [recorder EXCEPT !.res_headers = Some(headers)]

Recorder_set_res_body(recorder, body) == [recorder EXCEPT !.res_body = Some(body)]

Recorder_add_error(recorder, error) == [recorder EXCEPT !.errors = Append(recorder.errors, error)]

\* The record a Recorder yields; owner names the task that finalized it.
Recorder_take_traffic(recorder, owner) ==
    [uri |-> recorder.uri, method |-> recorder.method,
     req_headers |-> recorder.req_headers, req_body |-> recorder.req_body,
     res_status |-> recorder.res_status, res_headers |-> recorder.res_headers,
     res_body |-> recorder.res_body, errors |-> recorder.errors,
     dump |-> recorder.dump, owner |-> owner, id |-> 0]

\* ------------------------------------------------------------ State store

\* The store is its ordered records and one receiver per subscribed task.
TrafficHead(traffic) ==
    [id |-> traffic.id, method |-> traffic.method, uri |-> traffic.uri,
     status |-> traffic.res_status]

\* The decimal digits.
Digits == <<"0", "1", "2", "3", "4", "5", "6", "7", "8", "9">>

\* A usize is written as its decimal numeral without leading zeros, since
\* its values reach 2^64 - 1.
RECURSIVE Numeral(_)
Numeral(n) ==
    IF n < 10 THEN <<Digits[n + 1]>>
    ELSE Append(Numeral(n \div 10), Digits[(n % 10) + 1])

ClosedReceiver == [open |-> FALSE, queue |-> <<>>, lagged |-> FALSE]

\* A send to one receiver: a receiver that already holds ChannelCap heads
\* loses the oldest one and is marked as lagging.
ReceiverPush(r, head) ==
    IF ~r.open THEN r
    ELSE IF Len(r.queue) >= ChannelCap
    THEN [r EXCEPT !.queue = Append(Tail(r.queue), head), !.lagged = TRUE]
    ELSE [r EXCEPT !.queue = Append(r.queue, head)]

\* add: the next id, the append and the publication, in one critical section.
State_add_trafic(st, traffic) ==
    LET id == Len(st.entries) + 1
        stored == [traffic EXCEPT !.id = id]
    IN [entries |-> Append(st.entries, stored),
        rx |-> [t \in DOMAIN st.rx |-> ReceiverPush(st.rx[t], TrafficHead(stored))]]

State_list(st) == [i \in DOMAIN st.entries |-> TrafficHead(st.entries[i])]

\* get_traffic: the record with this id; the id is a usize, given as its
\* numeral.
State_get_traffic(st, id) ==
    LET is == {i \in DOMAIN st.entries : Numeral(st.entries[i].id) = id}
    IN IF is = {} THEN None ELSE Some(st.entries[CHOOSE i \in is : TRUE])

\* subscribe: a new receiver, which sees only what is sent from now on.
State_subscribe(st, t) ==
    [st EXCEPT !.rx[t] = [open |-> TRUE, queue |-> <<>>, lagged |-> FALSE]]


\* --------------------------------------------------------------- Response

EmptyBody == [kind |-> "empty", bytes |-> <<>>, data |-> <<>>]

\* Full::new(bytes): the body of a forwarded response.
FullBody(bytes) == [kind |-> "full", bytes |-> bytes, data |-> <<>>]

\* Response::default(): status 200, no header, an empty body.
Response_default == [status |-> StatusOK, headers |-> <<>>, body |-> EmptyBody]

\* set_res_body: a text body and its Content-Length.
set_res_body(res, body) ==
    [res EXCEPT !.headers = HeaderInsert(@, "content-length", "{body.len()}"),
                !.body = [kind |-> "text", bytes |-> <<>>, data |-> body]]

\* ------------------------------------------------------------------ state

VARIABLES
    server,     \* reverse_proxy_url, filters, mime_filters: fixed at start
    workload,   \* the sets the environment's inputs are drawn from
    task,       \* per accepted request: the position and locals of handle
    store,      \* the State store: entries and the receivers of its channel
    tun         \* per CONNECT request: the spawned tunnel task

vars == <<server, workload, task, store, tun>>

IdleTask ==
    [pc |-> "idle", req |-> <<>>, via |-> 0, url |-> <<>>, recorder |-> <<>>,
     req_body |-> <<>>, proxy_req |-> None, proxy_res_status |-> 0,
     proxy_res_headers |-> <<>>, encoding |-> "", proxy_res_body |-> <<>>,
     res |-> Response_default, init_data |-> <<>>, received |-> <<>>,
     failed |-> None, inbound |-> <<>>]

Request(method, uri, version, headers) ==
    [method |-> method, uri |-> uri, version |-> version, headers |-> headers]

\* ------------------------------------------------------------ handle: URL

\* Lines 65-80: the URL a request is forwarded to, None when the target is
\* origin-form and no reverse-proxy base URL is set.
ResolveUrl(srv, req_uri) ==
    IF ~starts_with(req_uri, <<"/">>) \/ starts_with(req_uri, WEBUI_PREFIX)
    THEN Some(req_uri)
    ELSE IF IsSome(srv.reverse_proxy_url)
    THEN IF req_uri = <<"/">>
         THEN Some(Unwrap(srv.reverse_proxy_url))
         ELSE Some(Unwrap(srv.reverse_proxy_url) \o req_uri)
    ELSE None

\* Lines 82-123: which handler a resolved URL and method are given to.
Route(url, method) ==
    LET path == PathOf(url)
    IN IF IsSome(strip_prefix(path, CERT_SITE_URL)) THEN "cert_site"
       ELSE IF IsSome(strip_prefix(path, WEBUI_PREFIX)) THEN "webui"
       ELSE IF method = "CONNECT" THEN "connect"
       ELSE "forward"

\* A variant that prints the record and never hands it to the store.
take_recorder_printed(st, recorder, t) == st

\* Lines 444-447: the record of the Recorder is added to the store.
take_recorder(st, recorder, t) == State_add_trafic(st, Recorder_take_traffic(recorder, t))

\* A variant that reports the error downstream and stores no record.
internal_server_error_unrecorded(st, res, error, recorder, t) ==
    [store |-> st, res |-> [res EXCEPT !.status = StatusInternalServerError]]

\* A variant that stores the record and leaves the response's status alone.
internal_server_error_status_kept(st, res, error, recorder, t) ==
    [store |-> take_recorder(st, Recorder_add_error(recorder, error), t), res |-> res]

internal_server_error(st, res, error, recorder, t) ==
    [store |-> take_recorder(st, Recorder_add_error(recorder, error), t),
     res |-> [res EXCEPT !.status = StatusInternalServerError]]

ReqUri(t) == UriToString(task[t].req.uri)

\* ------------------------------------------------------------ the listener

\* The listener parses the next request of a client and calls handle.
Accept(t) ==
    /\ task[t].pc = "idle"
    /\ \A u \in Tasks : u < t => task[u].pc # "idle"
    /\ Cardinality({u \in Tasks : task[u].pc # "idle" /\ task[u].via = 0}) < workload.max_direct
    /\ Cardinality({u \in Tasks : task[u].pc \notin
                        {"idle", "done", "streaming", "lagged", "cancelled"}})
          < workload.in_flight
    /\ \E r \in workload.requests :
          task' = [task EXCEPT ![t] = [IdleTask EXCEPT !.pc = "accepted", !.req = r,
                                                       !.inbound = r.uri]]
    /\ UNCHANGED <<server, workload, store, tun>>

\* handle, lines 65-80: no URL can be resolved.
HandleNoBase(t) ==
    /\ task[t].pc = "accepted"
    /\ ~IsSome(ResolveUrl(server, ReqUri(t)))
    /\ LET out == internal_server_error(store, Response_default, "No reserver proxy url",
                                        Recorder_new(ReqUri(t), task[t].req.method), t)
       IN /\ store' = out.store
          /\ task' = [task EXCEPT ![t].pc = "done", ![t].res = out.res,
                                  ![t].failed = Some(<<"url", "No reserver proxy url">>)]
    /\ UNCHANGED <<server, workload, tun>>

\* ---------------------------------------------------------- control surface

handle_cert_site(res, path) ==
    IF path = <<>>
    THEN [set_res_body(res, <<"CERT_SITE_INDEX">>) EXCEPT
              !.headers = HeaderInsert(@, "content-type", "text/html; charset=UTF-8")]
    ELSE IF path = <<"proxyfor-ca-cert.cer">> \/ path = <<"proxyfor-ca-cert.pem">>
    THEN [set_res_body(res, <<"ca_cert_pem">>) EXCEPT
              !.headers = HeaderInsert(
                  HeaderInsert(@, "content-type", "application/x-x509-ca-cert"),
                  "content-disposition", "attachment; filename={path}")]
    ELSE [res EXCEPT !.status = StatusNotFound]

handle_webui_index(res) ==
    [set_res_body(res, <<"WEBUI_INDEX">>) EXCEPT
         !.headers = HeaderInsert(@, "content-type", "text/html; charset=UTF-8")]

handle_list_traffis(st, res) ==
    [set_res_body(res, State_list(st)) EXCEPT
         !.headers = HeaderInsert(
             HeaderInsert(@, "content-type", "application/json; charset=UTF-8"),
             "cache-control", "no-cache")]

\* The id of "/traffic/{id}" is the sequence of its characters.
IsDigit(c) == \E d \in DOMAIN Digits : Digits[d] = c

DigitValue(c) == (CHOOSE d \in DOMAIN Digits : Digits[d] = c) - 1

\* The digits of a numeral without its leading zeros.
RECURSIVE Significant(_)
Significant(digits) ==
    IF digits # <<>> /\ Head(digits) = "0" THEN Significant(Tail(digits)) ELSE digits

\* The digits of usize::MAX, 2^64 - 1.
USIZE_MAX == <<"1", "8", "4", "4", "6", "7", "4", "4", "0", "7", "3", "7", "0", "9", "5", "5",
               "1", "6", "1", "5">>

\* Of two numerals of the same length, the first is the larger.
RECURSIVE Above(_, _)
Above(a, b) ==
    /\ a # <<>>
    /\ \/ DigitValue(Head(a)) > DigitValue(Head(b))
       \/ Head(a) = Head(b) /\ Above(Tail(a), Tail(b))

\* id.parse() to usize: an optional '+', then one digit or more, leading
\* zeros allowed, and a value of at most usize::MAX.  The value is given as
\* its numeral: "01" and "+1" are Some(<<"1">>), "000" is Some(<<"0">>).
ParseId(id) ==
    LET digits == IF id # <<>> /\ Head(id) = "+" THEN Tail(id) ELSE id
        sig == Significant(digits)
    IN IF digits = <<>> \/ \E i \in DOMAIN digits : ~IsDigit(digits[i]) THEN None
       ELSE IF Len(sig) > Len(USIZE_MAX) \/ (Len(sig) = Len(USIZE_MAX) /\ Above(sig, USIZE_MAX))
       THEN None
       ELSE IF sig = <<>> THEN Some(<<"0">>)
       ELSE Some(sig)

handle_traffic_info(st, res, id) ==
    LET n == ParseId(id)
        traffic == IF IsSome(n) THEN State_get_traffic(st, Unwrap(n)) ELSE None
    IN IF IsSome(traffic)
       THEN [set_res_body(res, <<Unwrap(traffic)>>) EXCEPT
                !.headers = HeaderInsert(
                    HeaderInsert(@, "content-type", "application/json; charset=UTF-8"),
                    "cache-control", "no-cache")]
       ELSE [res EXCEPT !.status = StatusNotFound]

\* handle, lines 87-95: the CA-install site.
HandleCertSite(t) ==
    /\ task[t].pc = "accepted"
    /\ IsSome(ResolveUrl(server, ReqUri(t)))
    /\ LET url == Unwrap(ResolveUrl(server, ReqUri(t)))
       IN /\ Route(url, task[t].req.method) = "cert_site"
          /\ task' = [task EXCEPT
                 ![t].pc = "done", ![t].url = url,
                 ![t].res = handle_cert_site(Response_default,
                                Unwrap(strip_prefix(PathOf(url), CERT_SITE_URL)))]
    /\ UNCHANGED <<server, workload, store, tun>>

\* A variant that records a request for an unknown path under the prefix
\* like a forwarded one that failed.
HandleWebui_recorded(t) ==
    /\ task[t].pc = "accepted"
    /\ IsSome(ResolveUrl(server, ReqUri(t)))
    /\ LET url == Unwrap(ResolveUrl(server, ReqUri(t)))
           out == internal_server_error(store, Response_default, "Not found",
                                        Recorder_new(ReqUri(t), task[t].req.method), t)
       IN /\ Route(url, task[t].req.method) = "webui"
          /\ Unwrap(strip_prefix(PathOf(url), WEBUI_PREFIX)) # <<"/", "subscribe">>
          /\ store' = out.store
          /\ task' = [task EXCEPT ![t].pc = "done", ![t].url = url,
                                  ![t].res = [out.res EXCEPT !.status = StatusNotFound]]
    /\ UNCHANGED <<server, workload, tun>>

\* handle, lines 96-114, but for /subscribe: the index, the list, one record,
\* or 404 for an unknown path under the prefix.
HandleWebui(t) ==
    /\ task[t].pc = "accepted"
    /\ IsSome(ResolveUrl(server, ReqUri(t)))
    /\ LET url == Unwrap(ResolveUrl(server, ReqUri(t)))
           path == strip_prefix(PathOf(url), WEBUI_PREFIX)
       IN /\ Route(url, task[t].req.method) = "webui"
          /\ Unwrap(path) # <<"/", "subscribe">>
          /\ task' = [task EXCEPT
                 ![t].pc = "done", ![t].url = url,
                 ![t].res =
                     IF Unwrap(path) = <<>> \/ Unwrap(path) = <<"/">>
                     THEN handle_webui_index(Response_default)
                     ELSE IF Unwrap(path) = <<"/", "traffics">>
                     THEN handle_list_traffis(store, Response_default)
                     ELSE IF IsSome(strip_prefix(Unwrap(path), <<"/", "traffic", "/">>))
                     THEN handle_traffic_info(store, Response_default,
                              Unwrap(strip_prefix(Unwrap(path), <<"/", "traffic", "/">>)))
                     ELSE [Response_default EXCEPT !.status = StatusNotFound]]
    /\ UNCHANGED <<server, workload, store, tun>>

\* handle_subscribe_traffic, line 259, first call: self.state.list().
SubscribeList(t) ==
    /\ task[t].pc = "accepted"
    /\ IsSome(ResolveUrl(server, ReqUri(t)))
    /\ LET url == Unwrap(ResolveUrl(server, ReqUri(t)))
       IN /\ Route(url, task[t].req.method) = "webui"
          /\ strip_prefix(PathOf(url), WEBUI_PREFIX) = Some(<<"/", "subscribe">>)
          /\ task' = [task EXCEPT ![t].pc = "subscribe", ![t].url = url,
                                  ![t].init_data = State_list(store)]
    /\ UNCHANGED <<server, workload, store, tun>>

\* A variant whose channel replays to a new receiver the heads it still
\* holds, the last ChannelCap that were sent.
SubscribeReceiver_replay(t) ==
    /\ task[t].pc = "subscribe"
    /\ store' = [State_subscribe(store, t) EXCEPT !.rx[t].queue =
                     SubSeq(State_list(store),
                            IF Len(store.entries) > ChannelCap
                            THEN Len(store.entries) - ChannelCap + 1 ELSE 1,
                            Len(store.entries))]
    /\ task' = [task EXCEPT
           ![t].pc = "streaming",
           ![t].res = [Response_default EXCEPT
               !.headers = HeaderInsert(@, "cache-control", "no-cache"),
               !.body = [kind |-> "stream", bytes |-> <<>>, data |-> task[t].init_data]]]
    /\ UNCHANGED <<server, workload, tun>>

\* handle_subscribe_traffic, lines 259-278: self.state.subscribe(), and the
\* response whose body is the snapshot followed by the receiver's stream.
SubscribeReceiver(t) ==
    /\ task[t].pc = "subscribe"
    /\ store' = State_subscribe(store, t)
    /\ task' = [task EXCEPT
           ![t].pc = "streaming",
           ![t].res = [Response_default EXCEPT
               !.headers = HeaderInsert(@, "cache-control", "no-cache"),
               !.body = [kind |-> "stream", bytes |-> <<>>, data |-> task[t].init_data]]]
    /\ UNCHANGED <<server, workload, tun>>

\* A variant that yields the oldest head and leaves it in the receiver.
StreamNext_peek(t) ==
    /\ task[t].pc = "streaming"
    /\ store.rx[t].open
    /\ ~store.rx[t].lagged
    /\ store.rx[t].queue # <<>>
    /\ task' = [task EXCEPT ![t].received = Append(@, Head(store.rx[t].queue))]
    /\ UNCHANGED <<server, workload, store, tun>>

\* The body stream yields the next broadcast head, or ends with the lag
\* error of a receiver that was overrun.
StreamNext(t) ==
    /\ task[t].pc = "streaming"
    /\ store.rx[t].open
    /\ \/ /\ store.rx[t].lagged
          /\ store' = [store EXCEPT !.rx[t] = ClosedReceiver]
          /\ task' = [task EXCEPT ![t].pc = "lagged"]
       \/ /\ ~store.rx[t].lagged
          /\ store.rx[t].queue # <<>>
          /\ store' = [store EXCEPT !.rx[t].queue = Tail(@)]
          /\ task' = [task EXCEPT ![t].received = Append(@, Head(store.rx[t].queue))]
    /\ UNCHANGED <<server, workload, tun>>

\* ------------------------------------------------------ handle: forwarding

\* Lines 116-125: a forwarded request gets a Recorder and is read in full.
HandleForward(t) ==
    /\ task[t].pc = "accepted"
    /\ IsSome(ResolveUrl(server, ReqUri(t)))
    /\ LET url == Unwrap(ResolveUrl(server, ReqUri(t)))
           method == task[t].req.method
           recorder == Recorder_control_dump(Recorder_new(ReqUri(t), method),
                           is_match_title(server.filters, <<method, " ">> \o url))
       IN /\ Route(url, method) = "forward"
          /\ task' = [task EXCEPT
                 ![t].pc = "req_collect", ![t].url = url,
                 ![t].recorder = Recorder_set_req_headers(recorder, task[t].req.headers)]
    /\ UNCHANGED <<server, workload, store, tun>>

\* Lines 127-133: reading the request body failed.
ReqCollectFailed(t) ==
    /\ task[t].pc = "req_collect"
    /\ \E r \in workload.req_bodies :
          /\ ~r.ok
          /\ LET out == internal_server_error(store, task[t].res, r.e, task[t].recorder, t)
             IN /\ store' = out.store
                /\ task' = [task EXCEPT ![t].pc = "done", ![t].res = out.res,
                                        ![t].failed = Some(<<"req_body", r.e>>)]
    /\ UNCHANGED <<server, workload, tun>>

\* Lines 137-143: the upstream request has every header but Host.
ProxyHeaders(req_headers) == SelectSeq(req_headers, LAMBDA h : h[1] # "host")

\* Lines 127-151: the body is read and recorded; building the upstream
\* request failed.
BuildFailed(t) ==
    /\ task[t].pc = "req_collect"
    /\ \E r \in workload.req_bodies, b \in workload.builds :
          /\ r.ok
          /\ ~b.ok
          /\ LET out == internal_server_error(store, task[t].res, b.e,
                            Recorder_set_req_body(task[t].recorder, r.v), t)
             IN /\ store' = out.store
                /\ task' = [task EXCEPT ![t].pc = "done", ![t].res = out.res,
                                        ![t].req_body = r.v,
                                        ![t].failed = Some(<<"build", b.e>>)]
    /\ UNCHANGED <<server, workload, tun>>

\* The spellings of "http" in every case of its letters.
HttpSpellings ==
    {"HTTP", "HTTp", "HTtP", "HTtp", "HtTP", "HtTp", "HttP", "Http", "hTTP",
     "hTTp", "hTtP", "hTtp", "htTP", "htTp", "httP", "http"}

\* The spellings of "https" in every case of its letters.
HttpsSpellings ==
    {"HTTPS", "HTTPs", "HTTpS", "HTTps", "HTtPS", "HTtPs", "HTtpS", "HTtps",
     "HtTPS", "HtTPs", "HtTpS", "HtTps", "HttPS", "HttPs", "HttpS", "Https",
     "hTTPS", "hTTPs", "hTTpS", "hTTps", "hTtPS", "hTtPs", "hTtpS", "hTtps",
     "htTPS", "htTPs", "htTpS", "htTps", "httPS", "httPs", "httpS", "https"}

\* Scheme2::parse: "http" and "https" are recognised in any case of their
\* letters (eq_ignore_ascii_case) and are written in lower case; any other
\* scheme is kept as it is spelt.
LowerScheme(scheme) ==
    IF scheme \in HttpSpellings THEN "http"
    ELSE IF scheme \in HttpsSpellings THEN "https"
    ELSE scheme

\* Line 137, builder.uri(&url): the Uri parsed from the URL, as Display
\* writes it.  The fragment, from the first "#" on, is dropped; after
\* "scheme://" the authority runs to the first "/" or "?", and a path that
\* is empty is written "/".
BuilderUri(url) ==
    LET hashes == {i \in DOMAIN url : url[i] = "#"}
        text == IF hashes = {} THEN url
                ELSE SubSeq(url, 1, (CHOOSE i \in hashes : \A j \in hashes : i <= j) - 1)
    IN IF Len(text) >= 4 /\ SubSeq(text, 2, 4) = <<":", "/", "/">>
       THEN LET ends == {i \in 5..Len(text) : text[i] \in {"/", "?"}}
                e == IF ends = {} THEN Len(text) + 1
                     ELSE CHOOSE i \in ends : \A j \in ends : i <= j
                head == <<LowerScheme(text[1])>> \o SubSeq(text, 2, e - 1)
            IN IF e <= Len(text) /\ text[e] = "/"
               THEN head \o SubSeq(text, e, Len(text))
               ELSE head \o <<"/">> \o SubSeq(text, e, Len(text))
       ELSE text

\* Lines 127-167: the body is read and recorded and the upstream request is
\* built and sent.
RequestSent(t) ==
    /\ task[t].pc = "req_collect"
    /\ \E r \in workload.req_bodies, b \in workload.builds :
          /\ r.ok
          /\ b.ok
          /\ task' = [task EXCEPT
                 ![t].pc = "upstream", ![t].req_body = r.v,
                 ![t].recorder = Recorder_set_req_body(@, r.v),
                 ![t].proxy_req = Some([uri |-> BuilderUri(task[t].url), method |-> task[t].req.method,
                                        headers |-> ProxyHeaders(task[t].req.headers),
                                        body |-> r.v,
                                        https |-> starts_with(task[t].url,
                                                     <<"https", ":", "/", "/">>)])]
    /\ UNCHANGED <<server, workload, store, tun>>

\* Lines 168-174: the upstream request failed.
UpstreamFailed(t) ==
    /\ task[t].pc = "upstream"
    /\ \E u \in workload.upstreams :
          /\ ~u.ok
          /\ LET out == internal_server_error(store, task[t].res, u.e, task[t].recorder, t)
             IN /\ store' = out.store
                /\ task' = [task EXCEPT ![t].pc = "done", ![t].res = out.res,
                                        ![t].failed = Some(<<"upstream", u.e>>)]
    /\ UNCHANGED <<server, workload, tun>>

\* Lines 187-193: the value of the last Content-Encoding header that reads
\* as a string, "" without.
LastEncoding(headers) ==
    LET is == {i \in DOMAIN headers :
                  headers[i][1] = "content-encoding" /\ to_str(headers[i][2]).ok}
    IN IF is = {} THEN "" ELSE headers[CHOOSE i \in is : \A j \in is : j <= i][2]

\* Lines 188-195: every upstream header is inserted in the response.
RECURSIVE CopyHeaders(_, _)
CopyHeaders(res_headers, proxy_res_headers) ==
    IF proxy_res_headers = <<>> THEN res_headers
    ELSE CopyHeaders(HeaderInsert(res_headers, Head(proxy_res_headers)[1],
                                  Head(proxy_res_headers)[2]),
                     Tail(proxy_res_headers))

\* Lines 179-181: the first Content-Type value, when it reads as a string.
ContentType(proxy_res_headers) ==
    IF IsSome(HeaderGet(proxy_res_headers, "content-type"))
    THEN ResultOk(to_str(Unwrap(HeaderGet(proxy_res_headers, "content-type"))))
    ELSE None

\* A variant that sets the flag to what the MIME filters say.
DumpByType_overwrite(srv, recorder, proxy_res_headers) ==
    IF IsSome(ContentType(proxy_res_headers))
    THEN [recorder EXCEPT !.dump =
             is_match_type(srv.mime_filters, Unwrap(ContentType(proxy_res_headers)))]
    ELSE recorder

\* Lines 179-184: the Content-Type, when there is one, is matched.
DumpByType(srv, recorder, proxy_res_headers) ==
    IF IsSome(ContentType(proxy_res_headers))
    THEN Recorder_control_dump(recorder,
             is_match_type(srv.mime_filters, Unwrap(ContentType(proxy_res_headers))))
    ELSE recorder

\* Lines 168-195: the upstream answered; its status and headers are copied.
UpstreamResponded(t) ==
    /\ task[t].pc = "upstream"
    /\ \E u \in workload.upstreams :
          /\ u.ok
          /\ task' = [task EXCEPT
                 ![t].pc = "res_collect",
                 ![t].proxy_res_status = u.v.status,
                 ![t].proxy_res_headers = u.v.headers,
                 ![t].recorder = DumpByType(server, @, u.v.headers),
                 ![t].encoding = LastEncoding(u.v.headers),
                 ![t].res = [@ EXCEPT !.status = u.v.status,
                                      !.headers = CopyHeaders(@, u.v.headers)]]
    /\ UNCHANGED <<server, workload, store, tun>>

\* Lines 197-203: reading the upstream body failed.
ResCollectFailed(t) ==
    /\ task[t].pc = "res_collect"
    /\ \E r \in workload.res_bodies :
          /\ ~r.ok
          /\ LET out == internal_server_error(store, task[t].res, r.e, task[t].recorder, t)
             IN /\ store' = out.store
                /\ task' = [task EXCEPT ![t].pc = "done", ![t].res = out.res,
                                        ![t].failed = Some(<<"res_body", r.e>>)]
    /\ UNCHANGED <<server, workload, tun>>

\* Lines 209-214: a body that is not empty is recorded, decoded when its
\* encoding is known and it decodes.
RecordResBody(recorder, proxy_res_body, encoding) ==
    IF proxy_res_body # <<>>
    THEN Recorder_set_res_body(recorder,
             IF IsSome(decompress(proxy_res_body, encoding))
             THEN Unwrap(decompress(proxy_res_body, encoding))
             ELSE proxy_res_body)
    ELSE recorder

\* A variant that answers with the body as it was recorded.
Finish_recorded_body(st, res, recorder, proxy_res_status, proxy_res_headers, proxy_res_body, encoding, t) ==
    LET done == RecordResBody(
                    Recorder_set_res_headers(
                        Recorder_set_res_status(recorder, proxy_res_status),
                        proxy_res_headers),
                    proxy_res_body, encoding)
    IN [store |-> take_recorder(st, done, t),
        res |-> [res EXCEPT !.body = FullBody(IF IsSome(done.res_body)
                                              THEN Unwrap(done.res_body) ELSE <<>>)]]

\* Lines 205-222: the record is completed and stored, and the response gets
\* the upstream body.
Finish(st, res, recorder, proxy_res_status, proxy_res_headers, proxy_res_body, encoding, t) ==
    [store |-> take_recorder(st,
                   RecordResBody(
                       Recorder_set_res_headers(
                           Recorder_set_res_status(recorder, proxy_res_status),
                           proxy_res_headers),
                       proxy_res_body, encoding), t),
     res |-> [res EXCEPT !.body = FullBody(proxy_res_body)]]

\* Lines 197-222: the upstream body is read in full.
ResCollected(t) ==
    /\ task[t].pc = "res_collect"
    /\ \E r \in workload.res_bodies :
          /\ r.ok
          /\ LET out == Finish(store, task[t].res, task[t].recorder,
                               task[t].proxy_res_status, task[t].proxy_res_headers,
                               r.v, task[t].encoding, t)
             IN /\ store' = out.store
                /\ task' = [task EXCEPT ![t].pc = "done", ![t].res = out.res,
                                        ![t].proxy_res_body = r.v]
    /\ UNCHANGED <<server, workload, tun>>

\* ----------------------------------------------------------------- CONNECT

NoTunnel ==
    [pc |-> "none", authority |-> "", errors |-> <<>>, sent |-> <<>>, stream |-> <<>>,
     ending |-> "",
     buffer |-> <<0, 0, 0, 0>>, bytes_read |-> 0, prefix |-> <<>>, branch |-> "",
     scheme |-> "", served |-> 0, serve_result |-> None, failed |-> None]

\* Lines 116-123 and 310-322: a CONNECT whose target has no authority.
HandleConnectNoAuthority(t) ==
    /\ task[t].pc = "accepted"
    /\ IsSome(ResolveUrl(server, ReqUri(t)))
    /\ LET url == Unwrap(ResolveUrl(server, ReqUri(t)))
       IN /\ Route(url, task[t].req.method) = "connect"
          /\ ~IsSome(task[t].req.uri.authority)
          /\ task' = [task EXCEPT ![t].pc = "done", ![t].url = url,
                                  ![t].res = [Response_default EXCEPT
                                                 !.status = StatusBadRequest]]
    /\ UNCHANGED <<server, workload, store, tun>>

\* Lines 116-123, 310-323 and 406-410: the tunnel task is spawned and the
\* CONNECT is answered.
HandleConnect(t) ==
    /\ task[t].pc = "accepted"
    /\ IsSome(ResolveUrl(server, ReqUri(t)))
    /\ LET url == Unwrap(ResolveUrl(server, ReqUri(t)))
           method == task[t].req.method
           recorder == Recorder_control_dump(
                           Recorder_control_dump(Recorder_new(ReqUri(t), method),
                               is_match_title(server.filters, <<method, " ">> \o url)),
                           server.filters # <<>> \/ server.mime_filters # <<>>)
       IN /\ Route(url, method) = "connect"
          /\ IsSome(task[t].req.uri.authority)
          /\ task' = [task EXCEPT ![t].pc = "done", ![t].url = url,
                                  ![t].recorder = recorder, ![t].res = Response_default]
          /\ tun' = [tun EXCEPT ![t] = [NoTunnel EXCEPT
                         !.pc = "upgrade",
                         !.authority = Unwrap(task[t].req.uri.authority),
                         !.errors = recorder.errors]]
    /\ UNCHANGED <<server, workload, store>>

\* ErrorRecorder::add_error on the tunnel's recorder.
ErrorRecorder_add_error(tn, error) == [tn EXCEPT !.errors = Append(@, error)]

\* Lines 325-328 and 402-404: hyper::upgrade::on(&mut req) completes.
TunnelUpgraded(t) ==
    /\ tun[t].pc = "upgrade"
    /\ \E u \in workload.tunnels.upgrades :
          IF u.ok
          THEN \E s \in workload.tunnels.streams :
                  tun' = [tun EXCEPT ![t].pc = "peek", ![t].sent = s.bytes,
                                     ![t].stream = s.bytes, ![t].ending = s.ending]
          ELSE tun' = [tun EXCEPT ![t] = [ErrorRecorder_add_error(@, <<"Upgrade error", u.e>>)
                                             EXCEPT !.pc = "ended",
                                                    !.failed = Some(<<"upgrade", u.e>>)]]
    /\ UNCHANGED <<server, workload, task, store>>

\* AsyncReadExt::read_exact on a stream that carries `bytes` and then ends
\* as `ending` says: "eof" (the client closed), "reset" (an I/O error) or
\* "open" (the client sends nothing more for now).  Pending is None.
read_exact(bytes, ending, n) ==
    IF Len(bytes) >= n THEN Some(Ok(n))
    ELSE IF ending = "eof" THEN Some(Err("early eof"))
    ELSE IF ending = "reset" THEN Some(Err("connection reset"))
    ELSE None

PeekLen == 4

\* A variant that takes any target after "GET" for plaintext HTTP.
Classify_three_bytes(buffer) ==
    IF SubSeq(buffer, 1, 3) = <<71, 69, 84>> THEN "http"
    ELSE IF SubSeq(buffer, 1, 2) = <<22, 3>> THEN "tls"
    ELSE "opaque"

\* Lines 344, 351 and 377: the branch the peeked bytes select.
Classify(buffer) ==
    IF buffer = <<71, 69, 84, 32>> THEN "http"
    ELSE IF SubSeq(buffer, 1, 2) = <<22, 3>> THEN "tls"
    ELSE "opaque"

\* Lines 329-337: the peek failed.
TunnelPeekFailed(t) ==
    /\ tun[t].pc = "peek"
    /\ IsSome(read_exact(tun[t].stream, tun[t].ending, PeekLen))
    /\ LET r == Unwrap(read_exact(tun[t].stream, tun[t].ending, PeekLen))
       IN /\ ~r.ok
          /\ tun' = [tun EXCEPT ![t] = [ErrorRecorder_add_error(@,
                         <<"Failed to read from upgraded connection", r.e>>)
                         EXCEPT !.pc = "ended", !.failed = Some(<<"peek", r.e>>)]]
    /\ UNCHANGED <<server, workload, task, store>>

\* A variant that wraps the connection with nothing to replay.
PeekedBytes_none(buffer, bytes_read) == <<>>

\* Lines 339-342: the bytes given to Rewind::new_buffered, buffer[..bytes_read].
PeekedBytes(buffer, bytes_read) == SubSeq(buffer, 1, bytes_read)

\* Rewind: a read yields the buffered prefix first and then what the
\* connection yields.
Rewind_read(tn) == tn.prefix \o tn.stream

\* Lines 329-382: the peek succeeded; the stream is rewound and classified.
TunnelPeeked(t) ==
    /\ tun[t].pc = "peek"
    /\ IsSome(read_exact(tun[t].stream, tun[t].ending, PeekLen))
    /\ LET r == Unwrap(read_exact(tun[t].stream, tun[t].ending, PeekLen))
           buffer == SubSeq(tun[t].stream, 1, PeekLen)
           peeked == [tun[t] EXCEPT !.buffer = buffer, !.bytes_read = r.v,
                                    !.prefix = PeekedBytes(buffer, r.v),
                                    !.stream = SubSeq(@, r.v + 1, Len(@)),
                                    !.branch = Classify(buffer)]
       IN /\ r.ok
          /\ tun' = [tun EXCEPT ![t] =
                 CASE Classify(buffer) = "http" ->
                          [peeked EXCEPT !.pc = "serving", !.scheme = "http"]
                   [] Classify(buffer) = "tls" ->
                          [peeked EXCEPT !.pc = "tls_config"]
                   [] OTHER ->
                          [ErrorRecorder_add_error(peeked,
                               <<"Unknown protocol", SubSeq(buffer, 1, r.v)>>)
                           EXCEPT !.pc = "tcp_connect"]]
    /\ UNCHANGED <<server, workload, task, store>>

\* Lines 352-358: the server configuration for the authority is built.
TunnelTlsConfigured(t) ==
    /\ tun[t].pc = "tls_config"
    /\ \E c \in workload.tunnels.configs :
          tun' = [tun EXCEPT ![t] =
              IF c.ok THEN [@ EXCEPT !.pc = "tls_accept"]
              ELSE [ErrorRecorder_add_error(@, <<"Failed to build server config", c.e>>)
                    EXCEPT !.pc = "ended", !.failed = Some(<<"tls_config", c.e>>)]]
    /\ UNCHANGED <<server, workload, task, store>>

\* Lines 360-367: the TLS handshake with the client ends.
TunnelTlsAccepted(t) ==
    /\ tun[t].pc = "tls_accept"
    /\ \E a \in workload.tunnels.accepts_tls :
          tun' = [tun EXCEPT ![t] =
              IF a.ok THEN [@ EXCEPT !.pc = "serving", !.scheme = "https"]
              ELSE [ErrorRecorder_add_error(@, <<"Failed to establish TLS Connection", a.e>>)
                    EXCEPT !.pc = "ended", !.failed = Some(<<"tls_accept", a.e>>)]]
    /\ UNCHANGED <<server, workload, task, store>>

\* Lines 422-434: a request of HTTP/1.0 or HTTP/1.1 gets the tunnel's scheme
\* and authority; Uri::from_parts decides whether the parts make a Uri.
RewriteUri(uri, version, scheme, authority) ==
    IF version = "HTTP/1.0" \/ version = "HTTP/1.1"
    THEN Uri_from_parts([uri EXCEPT !.scheme = Some(scheme), !.authority = Some(authority)])
    ELSE Ok(uri)

\* What the inner server of lines 439-441 can call the service with next on
\* this tunnel: the plaintext branch was chosen because the stream starts
\* with "GET ", and HTTP/2 is spoken on the TLS branch alone.  A connection
\* speaks one protocol, and an HTTP/1.x connection reads its next request
\* once the one before it is answered.
InnerRequests(t) ==
    {r \in workload.tunnels.inner_requests :
        /\ (tun[t].scheme = "http" /\ tun[t].served = 0) => r.method = "GET"
        /\ r.version = "HTTP/2" => tun[t].scheme = "https"
        /\ \A u \in Tasks : task[u].via = t =>
              /\ (task[u].req.version = "HTTP/2") = (r.version = "HTTP/2")
              /\ r.version # "HTTP/2" => task[u].pc \in {"done", "lagged"}}

\* serve_connect_stream, lines 421-437: the service is called with the next
\* request of the tunnelled connection and passes it to handle.
ServeRequest(t, u) ==
    /\ tun[t].pc = "serving"
    /\ task[u].pc = "idle"
    /\ \A w \in Tasks : w < u => task[w].pc # "idle"
    /\ tun[t].served < workload.tunnels.max_inner
    /\ \E r \in InnerRequests(t) :
          LET uri == RewriteUri(r.uri, r.version, tun[t].scheme, tun[t].authority)
          IN /\ uri.ok
             /\ task' = [task EXCEPT ![u] = [IdleTask EXCEPT
                            !.pc = "accepted", !.via = t, !.inbound = r.uri,
                            !.req = [r EXCEPT !.uri = uri.v]]]
    /\ tun' = [tun EXCEPT ![t].served = @ + 1]
    /\ UNCHANGED <<server, workload, store>>

\* The calls of handle that end with the connection of the tunnel.  An
\* HTTP/1.x connection holds the one call it is driving and the body of its
\* response, which are dropped with it; an HTTP/2 connection spawns each call
\* on the executor of line 439, where the call lives on.
OwnedCalls(t) ==
    {u \in Tasks : /\ task[u].via = t
                   /\ task[u].req.version # "HTTP/2"
                   /\ task[u].pc \notin {"idle", "done", "lagged", "cancelled"}}

\* Lines 439-441: the connection future returns or unwinds, and a call it
\* owns is dropped at its await.
DropConnection(t) ==
    [u \in Tasks |-> IF u \in OwnedCalls(t) THEN [task[u] EXCEPT !.pc = "cancelled"]
                     ELSE task[u]]

\* Lines 260-275: the body of a /subscribe response owns the receiver, which
\* is dropped with the body.
DropReceivers(t) ==
    [store EXCEPT !.rx = [u \in Tasks |->
        IF u \in OwnedCalls(t) THEN ClosedReceiver ELSE store.rx[u]]]

\* Line 439: a call of handle that an HTTP/2 connection spawned outlives
\* the connection.  The poll it is in runs on; at its next poll it finds its
\* stream closed and is dropped at its await, its response body with it.
DropStream(u) ==
    /\ task[u].via # 0
    /\ tun[task[u].via].pc \in {"ended", "panicked"}
    /\ task[u].req.version = "HTTP/2"
    /\ task[u].pc \notin {"idle", "done", "lagged", "cancelled"}
    /\ task' = [task EXCEPT ![u].pc = "cancelled"]
    /\ store' = [store EXCEPT !.rx[u] = ClosedReceiver]
    /\ UNCHANGED <<server, workload, tun>>

\* serve_connect_stream, line 430: expect("Failed to build URI") panics in
\* the tunnel task, which ends there; the request gets no response.
ServePanic(t) ==
    /\ tun[t].pc = "serving"
    /\ tun[t].served < workload.tunnels.max_inner
    /\ \E r \in InnerRequests(t) :
          /\ ~RewriteUri(r.uri, r.version, tun[t].scheme, tun[t].authority).ok
          /\ tun' = [tun EXCEPT ![t].pc = "panicked", ![t].served = @ + 1]
    /\ task' = DropConnection(t)
    /\ store' = DropReceivers(t)
    /\ UNCHANGED <<server, workload>>

\* Lines 345-350 and 369-376: what an error of the inner server adds.
ReportServeError(tn, e) ==
    IF tn.scheme = "http"
    THEN ErrorRecorder_add_error(tn, <<"Websocket connect error", e>>)
    ELSE IF ~starts_with(e, <<"error shutting down connection">>)
    THEN ErrorRecorder_add_error(tn, <<"HTTPS connect error", e>>)
    ELSE tn

\* Lines 345-350 and 369-376: the inner server returns, on the end of the
\* connection or on an error of it, whether or not a request is in flight.
ServeEnded(t) ==
    /\ tun[t].pc = "serving"
    /\ \E r \in workload.tunnels.serve_results :
          tun' = [tun EXCEPT ![t] =
              [(IF r.ok THEN @ ELSE ReportServeError(@, r.e))
               EXCEPT !.pc = "ended", !.serve_result = Some(r)]]
    /\ task' = DropConnection(t)
    /\ store' = DropReceivers(t)
    /\ UNCHANGED <<server, workload>>

\* A variant that gives up on a refused connection without a word.
TunnelTcpConnected_silent(t) ==
    /\ tun[t].pc = "tcp_connect"
    /\ \E c \in workload.tunnels.connects :
          tun' = [tun EXCEPT ![t] =
              IF c.ok THEN [@ EXCEPT !.pc = "copy"]
              ELSE [@ EXCEPT !.pc = "ended", !.failed = Some(<<"tcp_connect", c.e>>)]]
    /\ UNCHANGED <<server, workload, task, store>>

\* Lines 383-390: the TCP connection to the authority.
TunnelTcpConnected(t) ==
    /\ tun[t].pc = "tcp_connect"
    /\ \E c \in workload.tunnels.connects :
          tun' = [tun EXCEPT ![t] =
              IF c.ok THEN [@ EXCEPT !.pc = "copy"]
              ELSE [ErrorRecorder_add_error(@, <<"Failed to connect", c.e>>)
                    EXCEPT !.pc = "ended", !.failed = Some(<<"tcp_connect", c.e>>)]]
    /\ UNCHANGED <<server, workload, task, store>>

\* Lines 392-399: copy_bidirectional returns.
TunnelCopyEnded(t) ==
    /\ tun[t].pc = "copy"
    /\ \E c \in workload.tunnels.copies :
          tun' = [tun EXCEPT ![t] =
              IF c.ok THEN [@ EXCEPT !.pc = "ended"]
              ELSE [ErrorRecorder_add_error(@, <<"Failed to tunnel unknown protocol", c.e>>)
                    EXCEPT !.pc = "ended", !.failed = Some(<<"copy", c.e>>)]]
    /\ UNCHANGED <<server, workload, task, store>>

\* -------------------------------------------------------------- workloads

GetHeaders == << <<"host", "example.test">>, <<"accept", "*/*">> >>

Get(uri) == Request("GET", uri, "HTTP/1.1", GetHeaders)

Origin(pq) == Uri(None, None, Some(pq))

Absolute(scheme, authority, pq) == Uri(Some(scheme), Some(authority), Some(pq))

UiRequests ==
    {Get(Origin(WEBUI_PREFIX)),
     Get(Origin(WEBUI_PREFIX \o <<"/", "subscribe">>)),
     Get(Origin(WEBUI_PREFIX \o <<"/", "traffics">>)),
     Get(Origin(WEBUI_PREFIX \o <<"/", "traffic", "/", "1">>)),
     Get(Origin(WEBUI_PREFIX \o <<"/", "traffic", "/", "x">>)),
     Get(Origin(WEBUI_PREFIX \o <<"/", "traffic", "/", "+", "1">>)),
     Get(Origin(WEBUI_PREFIX \o <<"/", "traffic", "/", "4">>)),
     Get(Origin(WEBUI_PREFIX \o <<"/", "traffic", "/", "-", "1">>)),
     Get(Origin(WEBUI_PREFIX \o <<"/", "nothing">>)),
     Get(Absolute("http", "proxyfor.local", <<"/">>)),
     Get(Absolute("http", "proxyfor.local", <<"?", "x">>)),
     Get(Absolute("http", "proxyfor.local", <<"/", "proxyfor-ca-cert.pem">>)),
     Get(Absolute("http", "proxyfor.local", <<"/", "other">>))}

ForwardRequests ==
    {Get(Origin(<<"/", "foo", "?", "x">>)),
     Get(Origin(<<"/">>)),
     Get(Absolute("http", "example.test", <<"/", "a">>)),
     Get(Absolute("https", "example.test", <<"/", "a", "?", "q">>))}

ConnectRequests ==
    {Request("CONNECT", Uri(None, Some("example.test:443"), None), "HTTP/1.1", <<>>),
     Request("CONNECT", Origin(<<"/", "foo">>), "HTTP/1.1", <<>>)}

Upstream(status, headers) == Ok([status |-> status, headers |-> headers])

NoServer == [reverse_proxy_url |-> None, filters |-> <<>>, mime_filters |-> <<>>]

BaseServer == [NoServer EXCEPT !.reverse_proxy_url = Some(<<"http", ":", "/", "/", "base.test">>)]

\* Started with a title filter and a MIME filter.
FilterServer ==
    [NoServer EXCEPT !.filters = << <<"GET", " ", "http", ":">> >>,
                     !.mime_filters = <<"text/html">>]

\* Started with a base URL whose scheme has letters in upper case and which
\* has a fragment.
UpperServer ==
    [NoServer EXCEPT !.reverse_proxy_url = Some(<<"hTTP", ":", "/", "/", "base.test", "#", "top">>)]

NoTunnels ==
    [upgrades |-> {}, streams |-> {}, configs |-> {}, accepts_tls |-> {},
     inner_requests |-> {}, max_inner |-> 0, serve_results |-> {},
     connects |-> {}, copies |-> {}]

\* One request of any kind, with every outcome of every step of handle; the
\* requests come from one client on one connection, each sent once the one
\* before it is answered.
DetailedWorkload ==
    [name |-> "detailed", servers |-> {NoServer, BaseServer}, max_direct |-> MaxDetailed,
     in_flight |-> 1,
     requests |-> UiRequests \cup ForwardRequests \cup ConnectRequests,
     req_bodies |-> {Err("body read error"), Ok(<<>>), Ok(<<1>>)},
     builds |-> {Err("invalid uri"), Ok(<<>>)},
     upstreams |-> {Err("connection refused"),
                    Upstream(200, <<>>),
                    Upstream(200, << <<"content-type", "text/html">>,
                                     <<"content-encoding", "gzip">> >>),
                    Upstream(204, << <<"content-encoding", "zstd">> >>),
                    Upstream(200, << <<"content-encoding", "gzip">>,
                                     <<"content-encoding", "gzip\\xff">> >>),
                    Upstream(200, << <<"set-cookie", "a">>, <<"set-cookie", "b">>,
                                     <<"content-encoding", "br">> >>)},
     res_bodies |-> {Err("incomplete body"), Ok(<<>>), Ok(<<31, 7>>), Ok(<<7, 7>>),
                     Ok(<<206>>)},
     tunnels |-> NoTunnels]

\* Forwarded requests to a server started with filters, and upstream
\* responses of several content types.
FilterWorkload ==
    [name |-> "filter", servers |-> {FilterServer, UpperServer}, max_direct |-> MaxDetailed,
     in_flight |-> 1,
     requests |-> {Get(Absolute("http", "example.test", <<"/", "a">>)),
                   Get(Absolute("https", "example.test", <<"/", "a", "?", "q">>)),
                   Get(Origin(<<"/", "foo">>))},
     req_bodies |-> {Err("body read error"), Ok(<<>>)},
     builds |-> {Ok(<<>>)},
     upstreams |-> {Err("connection refused"),
                    Upstream(200, <<>>),
                    Upstream(200, << <<"content-type", "text/html">> >>),
                    Upstream(200, << <<"content-type", "application/json">>,
                                     <<"content-type", "text/html">> >>),
                    Upstream(200, << <<"content-type", "text/html\\xe9">> >>)},
     res_bodies |-> {Err("incomplete body"), Ok(<<7>>)},
     tunnels |-> NoTunnels]

\* Concurrent forwarded requests, list requests and subscribers.
StoreWorkload ==
    [name |-> "store", servers |-> {NoServer}, max_direct |-> MaxStore,
     in_flight |-> MaxStore,
     requests |-> {Get(Absolute("http", "example.test", <<"/", "a">>)),
                   Get(Origin(WEBUI_PREFIX \o <<"/", "subscribe">>)),
                   Get(Origin(WEBUI_PREFIX \o <<"/", "traffics">>)),
                   Get(Origin(WEBUI_PREFIX \o <<"/", "traffic", "/", "0", "1">>))},
     req_bodies |-> {Ok(<<>>)},
     builds |-> {Ok(<<>>)},
     upstreams |-> {Err("connection refused"), Upstream(200, <<>>)},
     res_bodies |-> {Ok(<<7>>)},
     tunnels |-> NoTunnels]

\* Subscribers and the forwarded requests whose heads they are sent.
BroadcastWorkload ==
    [name |-> "broadcast", servers |-> {NoServer}, max_direct |-> MaxTasks,
     in_flight |-> MaxInFlight,
     requests |-> {Get(Absolute("http", "example.test", <<"/", "a">>)),
                   Get(Origin(WEBUI_PREFIX \o <<"/", "subscribe">>))},
     req_bodies |-> {Ok(<<>>)},
     builds |-> {Ok(<<>>)},
     upstreams |-> {Upstream(200, <<>>)},
     res_bodies |-> {Ok(<<7>>)},
     tunnels |-> NoTunnels]

GET_ == <<71, 69, 84, 32>>

Stream(bytes, ending) == [bytes |-> bytes, ending |-> ending]

\* The first bytes a client sends on the upgraded connection, and how the
\* connection goes on after them.
ClientStreams ==
    {Stream(GET_ \o <<47>>, "open"), Stream(GET_, "eof"),
     Stream(<<22, 3, 1, 0, 5>>, "open"), Stream(<<22, 3, 3, 2>>, "reset"),
     Stream(<<80, 79, 83, 84, 32>>, "open"), Stream(<<71, 69, 84, 47>>, "open"),
     Stream(<<22, 2, 1, 0>>, "open"), Stream(<<3, 22, 3, 1>>, "eof"),
     Stream(<<>>, "eof"), Stream(<<71, 69>>, "eof"), Stream(<<22, 3>>, "eof"),
     Stream(<<71, 69, 84>>, "open"), Stream(<<81>>, "reset")}

ShutdownError == <<"error shutting down connection", ": ", "broken pipe">>

\* One CONNECT and the requests served on its tunnel.
TunnelWorkload ==
    [name |-> "tunnel", servers |-> {NoServer}, max_direct |-> 1,
     in_flight |-> MaxTasks,
     requests |-> ConnectRequests,
     req_bodies |-> {Ok(<<>>)},
     builds |-> {Ok(<<>>)},
     upstreams |-> {Err("connection refused"), Upstream(200, <<>>)},
     res_bodies |-> {Ok(<<7>>)},
     tunnels |->
        [upgrades |-> {Err("upgrade expected but not completed"), Ok(<<>>)},
         streams |-> ClientStreams,
         configs |-> {Err("key generation failed"), Ok(<<>>)},
         accepts_tls |-> {Err("bad certificate"), Ok(<<>>)},
         inner_requests |->
            {Get(Origin(<<"/", "a">>)),
             Get(Absolute("http", "other.test", <<"/", "b">>)),
             Request("OPTIONS", Uri(None, None, Some(<<"*">>)), "HTTP/1.1", <<>>),
             Request("CONNECT", Uri(None, Some("nested.test:443"), None), "HTTP/1.1", <<>>),
             Request("GET", Absolute("https", "example.test:443", <<"/", "h2">>), "HTTP/2", <<>>),
             Request("GET", Origin(<<"/", "h2", "?", "host">>), "HTTP/2",
                     << <<"host", "example.test">> >>),
             Request("GET", Origin(WEBUI_PREFIX \o <<"/", "subscribe">>), "HTTP/2", <<>>)},
         max_inner |-> MaxInner,
         serve_results |-> {Ok(<<>>), Err(ShutdownError),
                            Err(<<"connection error", ": ", "reset">>),
                            Err(<<"hyper: ", "error shutting down connection">>)},
         connects |-> {Err("connection refused"), Ok(<<>>)},
         copies |-> {Err("broken pipe"), Ok(<<>>)}]]

Workloads ==
    {DetailedWorkload, FilterWorkload, StoreWorkload, BroadcastWorkload, TunnelWorkload}

\* ------------------------------------------------------ the specification

Init ==
    /\ workload \in Workloads
    /\ server \in workload.servers
    /\ task = [t \in Tasks |-> IdleTask]
    /\ store = [entries |-> <<>>, rx |-> [t \in Tasks |-> ClosedReceiver]]
    /\ tun = [t \in Tasks |-> NoTunnel]

Next ==
    \E t \in Tasks :
        \/ Accept(t)
        \/ HandleNoBase(t)
        \/ HandleCertSite(t)
        \/ HandleWebui(t)
        \/ SubscribeList(t)
        \/ SubscribeReceiver(t)
        \/ StreamNext(t)
        \/ HandleForward(t)
        \/ ReqCollectFailed(t)
        \/ BuildFailed(t)
        \/ RequestSent(t)
        \/ UpstreamFailed(t)
        \/ UpstreamResponded(t)
        \/ ResCollectFailed(t)
        \/ ResCollected(t)
        \/ HandleConnectNoAuthority(t)
        \/ HandleConnect(t)
        \/ TunnelUpgraded(t)
        \/ TunnelPeekFailed(t)
        \/ TunnelPeeked(t)
        \/ TunnelTlsConfigured(t)
        \/ TunnelTlsAccepted(t)
        \/ \E u \in Tasks : ServeRequest(t, u)
        \/ ServePanic(t)
        \/ ServeEnded(t)
        \/ DropStream(t)
        \/ TunnelTcpConnected(t)
        \/ TunnelCopyEnded(t)

Spec == Init /\ [][Next]_vars

\* ------------------------------------------------------------- properties

EntriesOf(t) == {i \in DOMAIN store.entries : store.entries[i].owner = t}

HeadIds(heads) == {heads[i].id : i \in DOMAIN heads}

IsPrefix(s, r) == Len(s) <= Len(r) /\ SubSeq(r, 1, Len(s)) = s

\* The task ran the forwarding pipeline to one of its ends.
Forwarded(t) ==
    /\ task[t].pc = "done"
    /\ task[t].recorder # <<>>
    /\ task[t].req.method # "CONNECT"

FailedAt(t, step) == IsSome(task[t].failed) /\ Unwrap(task[t].failed)[1] = step

\* The task finalized a transaction: the pipeline ran to one of its ends, or
\* no URL could be resolved for the request.
Finalized(t) == Forwarded(t) \/ (task[t].pc = "done" /\ FailedAt(t, "url"))

\* The task answered a request for the list of heads.
ListedTraffics(t) ==
    /\ task[t].pc = "done"
    /\ strip_prefix(PathOf(task[t].url), WEBUI_PREFIX) = Some(<<"/", "traffics">>)

\* C1: a subscriber that does not lag is delivered, on the broadcast part of
\* its stream, every head whose add completed after its list() snapshot:
\* each such head has been received or waits in the subscriber's receiver.
C1_NoHeadLostAtSeam ==
    \A t \in Tasks :
        (task[t].pc = "streaming" /\ ~store.rx[t].lagged) =>
            \A i \in DOMAIN store.entries :
                i > Len(task[t].init_data) =>
                    i \in HeadIds(task[t].received) \cup HeadIds(store.rx[t].queue)

\* C2: every finalized transaction has exactly one record in the
\* store and every record belongs to one; the ids of the store are 1..N in
\* the order of the adds; and a /traffics response lists ids 1..n with no gap
\* or repeat, in the order the store keeps from then on.
C2_IdsGapFree ==
    /\ \A i \in DOMAIN store.entries : store.entries[i].id = i
    /\ \A t \in Tasks : Finalized(t) => Cardinality(EntriesOf(t)) = 1
    /\ \A i \in DOMAIN store.entries : Finalized(store.entries[i].owner)
    /\ \A t \in Tasks :
          ListedTraffics(t) =>
              /\ \A i \in DOMAIN task[t].res.body.data : task[t].res.body.data[i].id = i
              /\ IsPrefix(task[t].res.body.data, State_list(store))

C2_Witness ==
    \E t, u, w \in Tasks :
        /\ t # u
        /\ Forwarded(t) /\ Forwarded(u)
        /\ FailedAt(t, "upstream") /\ ~IsSome(task[u].failed)
        /\ ListedTraffics(w)
        /\ Len(task[w].res.body.data) = 2

\* C3: a forwarded request that fails while its body is read, the upstream
\* request is built, the upstream response is awaited or the upstream body
\* is read is answered with status 500; its one record in the store carries
\* the error text; and nothing a later step sets is set.
C3_FailureYields500 ==
    \A t \in Tasks :
        (\E step \in {"req_body", "build", "upstream", "res_body"} : FailedAt(t, step)) =>
            /\ task[t].pc = "done"
            /\ task[t].res.status = StatusInternalServerError
            /\ Cardinality(EntriesOf(t)) = 1
            /\ LET rec == store.entries[CHOOSE i \in EntriesOf(t) : TRUE]
               IN /\ rec.errors = <<Unwrap(task[t].failed)[2]>>
                  /\ rec.res_status = None /\ rec.res_headers = None /\ rec.res_body = None
                  /\ task[t].res.body = EmptyBody
                  /\ FailedAt(t, "req_body") => rec.req_body = None
                  /\ (FailedAt(t, "req_body") \/ FailedAt(t, "build")) =>
                         task[t].proxy_req = None
                  /\ FailedAt(t, "upstream") =>
                         task[t].res.headers = <<>> /\ task[t].proxy_res_status = 0

C3_Witness ==
    \E t \in Tasks :
        /\ FailedAt(t, "res_body")
        /\ task[t].res.status = StatusInternalServerError
        /\ task[t].proxy_res_status = 200
        /\ \E i \in EntriesOf(t) : store.entries[i].errors = <<"incomplete body">>

\* C4: without a reverse-proxy base URL, an origin-form target outside the
\* UI prefix is answered with status 500 and a body that says that no
\* reverse-proxy URL is set, and a record with that error is stored.
C4_NoBaseBodySaysSo ==
    \A t \in Tasks :
        FailedAt(t, "url") =>
            /\ task[t].res.status = StatusInternalServerError
            /\ task[t].res.body.kind = "text"
            /\ \E i \in EntriesOf(t) : store.entries[i].errors = <<"No reserver proxy url">>

\* What the claim C5 says of the first four bytes a client sent.
BranchOfPrefix(b) ==
    IF b[1] = 71 /\ b[2] = 69 /\ b[3] = 84 /\ b[4] = 32 THEN "http"
    ELSE IF b[1] = 22 /\ b[2] = 3 THEN "tls"
    ELSE "opaque"

\* C5: a tunnel that has classified its stream took the one branch that the
\* first 4 bytes the client sent select: "GET " the plaintext branch with
\* scheme http, 0x16 0x03 the TLS branch, whose serving has scheme https, and
\* anything else the opaque branch, which connects to the authority and
\* copies.
C5_BranchByFirstFourBytes ==
    \A t \in Tasks :
        tun[t].pc \in {"serving", "tls_config", "tls_accept", "tcp_connect", "copy",
                       "panicked"}
        \/ (tun[t].pc = "ended" /\ tun[t].bytes_read > 0) =>
            /\ Len(tun[t].sent) >= 4
            /\ tun[t].branch = BranchOfPrefix(tun[t].sent)
            /\ tun[t].branch = "http" =>
                   tun[t].scheme = "http" /\ tun[t].pc \in {"serving", "panicked", "ended"}
            /\ tun[t].branch = "tls" =>
                   /\ tun[t].pc \in {"tls_config", "tls_accept", "serving", "panicked", "ended"}
                   /\ tun[t].pc \in {"serving", "panicked"} => tun[t].scheme = "https"
                   /\ tun[t].scheme \in {"", "https"}
            /\ tun[t].branch = "opaque" =>
                   tun[t].scheme = "" /\ tun[t].pc \in {"tcp_connect", "copy", "ended"}

C5_Witness ==
    \E t \in Tasks :
        /\ tun[t].pc = "copy"
        /\ tun[t].branch = "opaque"
        /\ SubSeq(tun[t].sent, 1, 4) = <<80, 79, 83, 84>>

\* C6: a client that sent fewer than 4 bytes and closed still has its
\* stream classified: the tunnel does not end at the peek.
C6_ShortReadTolerated ==
    \A t \in Tasks :
        (tun[t].pc = "ended" /\ tun[t].ending = "eof" /\ Len(tun[t].sent) < PeekLen) =>
            tun[t].branch # ""

\* C7: a forwarded request whose upstream response was read in full is
\* answered with exactly the bytes of the upstream body.
C7_BodyPassThrough ==
    \A t \in Tasks :
        (Forwarded(t) /\ ~IsSome(task[t].failed)) =>
            /\ task[t].res.body.kind = "full"
            /\ task[t].res.body.bytes = task[t].proxy_res_body

C7_Witness ==
    \E t \in Tasks :
        /\ Forwarded(t) /\ ~IsSome(task[t].failed)
        /\ task[t].encoding = "gzip"
        /\ task[t].res.body.bytes = <<31, 7>>
        /\ \E i \in EntriesOf(t) : store.entries[i].res_body = Some(<<7>>)

\* C8: a forwarded transaction that completes records an empty request body
\* and an empty upstream body as present, empty bodies.
C8_EmptyBodiesRecorded ==
    \A t \in Tasks :
        (Forwarded(t) /\ ~IsSome(task[t].failed)) =>
            \A i \in EntriesOf(t) :
                /\ task[t].req_body = <<>> => store.entries[i].req_body = Some(<<>>)
                /\ task[t].proxy_res_body = <<>> => store.entries[i].res_body = Some(<<>>)

\* C9: no request dispatched to the mediator aborts the task that serves
\* it, whatever the form of its target.
C9_NoRequestPanics ==
    \A t \in Tasks : tun[t].pc # "panicked"

IsShutdownError(e) == starts_with(e, <<"error shutting down connection">>)

ConnectErrors(tn) ==
    {i \in DOMAIN tn.errors :
        tn.errors[i][1] \in {"Websocket connect error", "HTTPS connect error"}}

\* C10: in both serving branches, a connection-shutdown error of the inner
\* server adds no error to the tunnel's recorder and any other error adds
\* one.
C10_ShutdownErrorDemoted ==
    \A t \in Tasks :
        (tun[t].pc = "ended" /\ IsSome(tun[t].serve_result)
                /\ ~Unwrap(tun[t].serve_result).ok) =>
            Cardinality(ConnectErrors(tun[t])) =
                IF IsShutdownError(Unwrap(tun[t].serve_result).e) THEN 0 ELSE 1

\* The task holds a Recorder of the forwarding pipeline.
Recording(t) == task[t].recorder # <<>> /\ task[t].req.method # "CONNECT"

TitleMatch(t) ==
    is_match_title(server.filters, <<task[t].req.method, " ">> \o task[t].url)

\* The flag each phase of the pipeline must hold, given what the MIME
\* filters say of the upstream response.
DumpFlagIs(t, mime_match) ==
    /\ task[t].pc \in {"req_collect", "upstream"} => task[t].recorder.dump = TitleMatch(t)
    /\ task[t].pc = "res_collect" => task[t].recorder.dump = (TitleMatch(t) /\ mime_match)
    /\ task[t].pc = "done" =>
          /\ EntriesOf(t) # {}
          /\ \A i \in EntriesOf(t) : store.entries[i].dump = (TitleMatch(t) /\ mime_match)

\* C11 as stated: the flag of a forwarded transaction is the title match
\* and, whenever the upstream response has a Content-Type header, the MIME
\* match of its value; the record is stored whatever the flag.
C11_DumpIsConjunctionAnyType ==
    \A t \in Tasks :
        Recording(t) =>
            DumpFlagIs(t, IsSome(HeaderGet(task[t].proxy_res_headers, "content-type")) =>
                              is_match_type(server.mime_filters,
                                  Unwrap(HeaderGet(task[t].proxy_res_headers, "content-type"))))

\* C11: the flag of a forwarded transaction is, in every phase from the
\* creation of the Recorder to the stored record, the title match of
\* "{METHOD} {URL}" and, once an upstream response arrived whose first
\* Content-Type value reads as a string, the MIME match of that value; a
\* flag that a check rejected stays false; the record is stored whatever
\* the flag.
C11_DumpIsConjunction ==
    \A t \in Tasks :
        Recording(t) =>
            DumpFlagIs(t, IsSome(ContentType(task[t].proxy_res_headers)) =>
                              is_match_type(server.mime_filters,
                                  Unwrap(ContentType(task[t].proxy_res_headers))))

C11_Witness ==
    \E t \in Tasks :
        /\ Forwarded(t) /\ ~IsSome(task[t].failed)
        /\ server.filters # <<>> /\ TitleMatch(t)
        /\ task[t].proxy_res_headers = << <<"content-type", "application/json">>,
                                          <<"content-type", "text/html">> >>
        /\ \E i \in EntriesOf(t) : ~store.entries[i].dump

\* The subscriber's stream is open and its receiver was never overrun.
Streaming(t) == task[t].pc = "streaming" /\ ~store.rx[t].lagged

\* The heads the subscriber was sent on the broadcast part: those it has
\* read and those that wait in its receiver.
Delivered(t) == task[t].received \o store.rx[t].queue

\* The heads of the records a step adds, in the order of their ids.
AddedHeads == SubSeq(State_list(store)', Len(store.entries) + 1, Len(store.entries'))

C12_Step ==
    /\ \A j \in DOMAIN AddedHeads : AddedHeads[j].id = Len(store.entries) + j
    /\ \A t \in Tasks :
          /\ (~Streaming(t) /\ Streaming(t)') => Delivered(t)' = <<>>
          /\ (Streaming(t) /\ Streaming(t)') => Delivered(t)' = Delivered(t) \o AddedHeads

\* C12: every subscriber that does not lag is sent, from its subscription
\* on, the head of each record added, once and in the order of the adds,
\* which is the order of increasing ids; so any two subscribers are sent the
\* heads of the records added after both subscribed in the same order.
C12_SameOrderOnce == [][C12_Step]_vars

C12_Witness ==
    \E t, u \in Tasks :
        /\ t # u
        /\ Streaming(t) /\ Streaming(u)
        /\ Len(store.entries) = 3
        /\ task[t].received = State_list(store)
        /\ [i \in 1..3 |-> task[t].received[i].id] = <<1, 2, 3>>
        /\ task[u].received = SubSeq(State_list(store), 1, 1)
        /\ store.rx[u].queue = SubSeq(State_list(store), 2, 3)

\* The ids a subscriber's stream carries in both of its parts.
SeamOverlap(t) == HeadIds(task[t].init_data) \cap HeadIds(Delivered(t))

\* C13: on the stream of every subscriber, lagging or not, at most one id of
\* the heads sent on the broadcast part is an id of the snapshot that the
\* stream emitted first.
C13_SnapshotAndTailDisjoint ==
    \A t \in Tasks :
        task[t].pc \in {"streaming", "lagged"} => Cardinality(SeamOverlap(t)) <= 1

C13_Witness ==
    \E t \in Tasks :
        /\ task[t].pc = "streaming"
        /\ HeadIds(task[t].init_data) = {1}
        /\ task[t].received = <<>>
        /\ [i \in DOMAIN store.rx[t].queue |-> store.rx[t].queue[i].id] = <<2, 3>>
        /\ Len(store.entries) = 3

\* C14: in every tunnel that has classified its stream, whatever branch it
\* took, what the next handler reads from the rewound stream is what the
\* client sent on the upgraded connection: the peeked bytes once, in order,
\* and then the bytes that follow them.
C14_PeekIsTransparent ==
    \A t \in Tasks :
        tun[t].branch # "" =>
            /\ Rewind_read(tun[t]) = tun[t].sent
            /\ tun[t].prefix = SubSeq(tun[t].sent, 1, PeekLen)

C14_Witness ==
    \E t \in Tasks :
        /\ tun[t].pc = "tls_accept"
        /\ tun[t].sent = <<22, 3, 1, 0, 5>>
        /\ tun[t].prefix = <<22, 3, 1, 0>>
        /\ tun[t].stream = <<5>>

\* The error each failing step of the tunnel task is described by.
FailureText(step) ==
    CASE step = "upgrade" -> "Upgrade error"
      [] step = "peek" -> "Failed to read from upgraded connection"
      [] step = "tls_config" -> "Failed to build server config"
      [] step = "tls_accept" -> "Failed to establish TLS Connection"
      [] step = "tcp_connect" -> "Failed to connect"
      [] step = "copy" -> "Failed to tunnel unknown protocol"

C15_Step ==
    \A t \in Tasks :
        /\ (~IsSome(tun[t].failed) /\ IsSome(tun'[t].failed)) =>
              LET f == Unwrap(tun'[t].failed)
              IN /\ f[1] = tun[t].pc
                 /\ tun'[t].errors = Append(tun[t].errors, <<FailureText(f[1]), f[2]>>)
                 /\ tun'[t].pc = "ended"
                 /\ tun'[t].served = tun[t].served
                 /\ task' = task
        /\ IsSome(tun[t].failed) =>
              /\ tun'[t] = tun[t]
              /\ \A u \in Tasks : task[u].via # t => task'[u].via # t

\* C15: the step at which the tunnel task fails - the upgrade, the peek, the
\* server configuration, the TLS accept, the TCP connect or the copy - adds
\* the error that describes this failure with its cause and ends the task;
\* from then on the task adds nothing, serves no request, connects nowhere
\* and copies nothing.
C15_FailureRecordedAndFinal == [][C15_Step]_vars

C15_Witness ==
    \E t \in Tasks :
        /\ tun[t].failed = Some(<<"tcp_connect", "connection refused">>)
        /\ tun[t].branch = "opaque"
        /\ Len(tun[t].errors) = 2

\* C16: a CONNECT whose target has no authority is answered 400, and no
\* tunnel task exists for it, so nothing is upgraded, spawned or connected
\* and nothing is stored; a CONNECT with an authority is answered 200 with
\* an empty body as soon as its tunnel task is spawned, wherever that task
\* stands.
C16_ConnectAnswered ==
    \A t \in Tasks :
        (task[t].pc = "done" /\ task[t].req.method = "CONNECT") =>
            IF IsSome(task[t].req.uri.authority)
            THEN /\ task[t].res.status = StatusOK
                 /\ task[t].res.body = EmptyBody
                 /\ tun[t].pc # "none"
            ELSE /\ task[t].res.status = StatusBadRequest
                 /\ tun[t] = NoTunnel
                 /\ EntriesOf(t) = {}

\* The request of the task is one for the control surface: the CA-install
\* site or a path under the UI prefix.
ControlRequest(t) ==
    /\ task[t].pc # "idle"
    /\ IsSome(ResolveUrl(server, ReqUri(t)))
    /\ Route(Unwrap(ResolveUrl(server, ReqUri(t))), task[t].req.method) \in {"cert_site", "webui"}

\* Nothing of a forwarded transaction exists for the task.
NothingRecorded(t) ==
    /\ task[t].recorder = <<>>
    /\ task[t].proxy_req = None
    /\ ~IsSome(task[t].failed)
    /\ tun[t] = NoTunnel
    /\ EntriesOf(t) = {}

\* C17 as stated: every step of handle for a control-surface request leaves
\* the store and its channel, receivers included, as they were.
C17_ControlLeavesStoreUntouched ==
    [][\A t \in Tasks :
          (task'[t] # task[t] /\ ControlRequest(t)) =>
              (store' = store /\ NothingRecorded(t)')]_vars

C17_Step ==
    \A t \in Tasks :
        (task'[t] # task[t] /\ ControlRequest(t)) =>
            /\ NothingRecorded(t)'
            /\ store'.entries = store.entries
            /\ \A u \in Tasks \ {t} : store'.rx[u] = store.rx[u]
            /\ \/ store'.rx[t] = store.rx[t]
               \/ task'[t].pc = "cancelled" /\ store'.rx[t] = ClosedReceiver
               \/ task[t].pc = "subscribe" /\ store'.rx[t] = State_subscribe(store, t).rx[t]
               \/ task[t].pc = "streaming" /\ ~store'.rx[t].open
               \/ task[t].pc = "streaming" /\ store'.rx[t].queue = Tail(store.rx[t].queue)
            /\ task'[t].pc = "done" =>
                  task'[t].res.status \in {StatusOK, StatusNotFound}

\* C17: a request for the CA-install site or for a path under the UI
\* prefix, known or not, is answered by the server itself with 200 or 404:
\* no Recorder and no upstream request exist for it, no record is added and
\* no head is published, and the receivers of the other subscribers are left
\* alone; /subscribe attaches one new receiver to the channel, from which
\* its own stream then reads and which is dropped with the response body
\* when the stream ends or the call is dropped.
C17_ControlAddsNoRecord == [][C17_Step]_vars

C17_Witness ==
    \E t \in Tasks :
        /\ task[t].pc = "done"
        /\ ControlRequest(t)
        /\ task[t].url = WEBUI_PREFIX \o <<"/", "nothing">>
        /\ task[t].res.status = StatusNotFound

\* An origin-form target: a path and query, no scheme and no authority.
IsOriginForm(uri) ==
    /\ uri # <<>>
    /\ ~IsSome(uri.scheme) /\ ~IsSome(uri.authority)
    /\ IsSome(uri.pq) /\ starts_with(Unwrap(uri.pq), <<"/">>)

\* The URL of a tunnel's scheme and authority and a request's path and query.
TunnelUrl(tn, uri) == <<tn.scheme, ":", "/", "/", tn.authority>> \o Unwrap(uri.pq)

\* C18: a request that arrived on a tunnelled connection with an origin-form
\* target reaches the mediator with the tunnel's scheme and authority in
\* its URI; the URL it is handled under, and the upstream request when one
\* is sent, is scheme://authority followed by the request's path and query,
\* and it is never failed for want of a base URL.
C18_TunnelRequestsGoToAuthority ==
    \A u \in Tasks :
        (task[u].via # 0 /\ IsOriginForm(task[u].inbound)) =>
            LET tn == tun[task[u].via]
            IN /\ UriToString(task[u].req.uri) = TunnelUrl(tn, task[u].inbound)
               /\ ~FailedAt(u, "url")
               /\ task[u].pc \notin {"accepted", "cancelled"} =>
                      task[u].url = TunnelUrl(tn, task[u].inbound)
               /\ IsSome(task[u].proxy_req) =>
                      Unwrap(task[u].proxy_req).uri = TunnelUrl(tn, task[u].inbound)

\* The task answered a request for the record with this id.
ShowedTraffic(t, id) ==
    /\ task[t].pc = "done"
    /\ IsSome(strip_prefix(PathOf(task[t].url), WEBUI_PREFIX \o <<"/", "traffic", "/">>))
    /\ ParseId(Unwrap(strip_prefix(PathOf(task[t].url),
                                   WEBUI_PREFIX \o <<"/", "traffic", "/">>))) = Some(Numeral(id))

C19_Step ==
    /\ \A t \in Tasks : Finalized(t) => EntriesOf(t) # {}
    /\ \A w \in Tasks :
          (task[w].pc = "accepted" /\ task'[w].pc = "done") =>
              \A t \in Tasks \ {w} :
                  Finalized(t) =>
                      \A i \in EntriesOf(t) :
                          /\ ListedTraffics(w)' =>
                                \E j \in DOMAIN task'[w].res.body.data :
                                    task'[w].res.body.data[j] = TrafficHead(store.entries[i])
                          /\ ShowedTraffic(w, i)' =>
                                /\ task'[w].res.status = StatusOK
                                /\ task'[w].res.body.data = <<store.entries[i]>>

\* C19: once handle has returned the response of a forwarded transaction,
\* be it the upstream's or a 500, the record is in the store: every list
\* and every record lookup that handle computes from then on, for any
\* other request, shows it.
C19_RecordedBeforeResponse == [][C19_Step]_vars

C19_Witness ==
    \E t, w, x \in Tasks :
        /\ Forwarded(t) /\ FailedAt(t, "upstream")
        /\ task[t].res.status = StatusInternalServerError
        /\ ListedTraffics(w) /\ HeadIds(task[w].res.body.data) = {1}
        /\ ShowedTraffic(x, 1) /\ task[x].res.status = StatusOK
        /\ task[x].url = WEBUI_PREFIX \o <<"/", "traffic", "/", "0", "1">>
        /\ task[x].res.body.data[1].owner = t

\* How many fields of the header map are this name with this value.
Occurrences(headers, field) == Cardinality({i \in DOMAIN headers : headers[i] = field})

\* C20: once the upstream response of a forwarded request is received, the
\* downstream response has the upstream status and, for every header field
\* of the upstream response, as many fields of that name and value as the
\* upstream sent, repeated names included.
C20_HeadersPassThrough ==
    \A t \in Tasks :
        (task[t].pc = "res_collect" \/ (Forwarded(t) /\ ~IsSome(task[t].failed))) =>
            /\ task[t].res.status = task[t].proxy_res_status
            /\ \A i \in DOMAIN task[t].proxy_res_headers :
                  Occurrences(task[t].res.headers, task[t].proxy_res_headers[i])
                      = Occurrences(task[t].proxy_res_headers, task[t].proxy_res_headers[i])
====
